---- MODULE Spec2Model ----
(***************************************************************************)
(* A model of packages/issuer/src/dcx-issuer.ts (class DcxIssuer):         *)
(*   - setup(): protocol and manifest reconciliation against the DWN       *)
(*     ("the Node"), one step per await;                                   *)
(*   - processRecord(): the application pipeline, one step per stage;      *)
(*   - the constructor's handler resolution.                               *)
(* The Node, the credential library and the HTTP provider are outside the  *)
(* repository: each call to them is a step whose outcome is chosen         *)
(* nondeterministically among the results the calling code distinguishes.  *)
(***************************************************************************)
EXTENDS Integers, Sequences, FiniteSets, TLC

\* ------------------------------------------------------------------ bounds
MaxManifests == 2
MaxInitRecords == 2
MaxInitProtocols == 1
MaxRuns == 2
MaxVp == 1
MaxTokens == 3
MaxDescriptors == 2
MaxHandlers == 3
MaxInvocations == 2

\* manifest ids: as many as a configured list can hold distinct ones
ManifestIds == 1..MaxManifests
AgentDid == "did:agent"
OtherDid == "did:other"
Pending == [id |-> 0, issuer |-> "pending"]

\* the four operations the constructor resolves (lines 59-62)
Stages == {"selectCredentials", "verifyCredentials", "requestCredential", "issueCredential"}
AuthorDid == "did:author"
\* ids of this.dcxOptions.issuers and of dcxIssuerConfig.DCX_INPUT_ISSUERS (line 111)
OptionIssuers == {"did:allowed"}
StaticIssuers == {"did:trusted"}
TokenIssuers == OptionIssuers \cup StaticIssuers \cup {"did:untrusted"}
\* ids of this.dcxOptions.providers (line 200)
Providers == {"provider"}

\* values of variables that hold nothing yet
NoResponse == [transport |-> FALSE, status |-> -1, json |-> FALSE]
NoData == [status |-> 0, by |-> "none"]
NoVc == [subject |-> "none", issuer |-> "none", type |-> 0, data |-> NoData,
         descriptor_map |-> <<>>]
\* what an overriding issueCredential handler returns: caller's code, opaque here
OverrideVc == [subject |-> "override", issuer |-> "override", type |-> 0, data |-> NoData,
               descriptor_map |-> <<>>]
\* a class field declared without an initializer (line 52)
Undefined == [defined |-> FALSE, handlers |-> <<>>]

\* the status a Node call returns, as far as the code looks at it: which call,
\* and whether DwnUtils.isFailure holds of its code
Status(call, failure) == [call |-> call, failure |-> failure]
NoStatus == [call |-> "none", failure |-> FALSE]
\* new DwnError(code, detail): carries the code and detail of `status`
DwnError(status) == [name |-> "DwnError", status |-> status]
\* new DcxDwnError(message) (line 367): carries no status
DcxDwnError == [name |-> "DcxDwnError", status |-> NoStatus]
\* what records.read or record.data.json() rejects with (lines 314-321)
ReadError == [name |-> "Error", status |-> NoStatus]
NoError == [name |-> "none", status |-> NoStatus]

VARIABLES
  manifests,      \* this.dcxOptions.manifests: sequence of [id, issuer]
  nodeProtocols,  \* protocol definitions the Node returns for issuer.protocol
  remoteProtocols,\* number of protocol handles sent to the agent's remote DWN
  nodeRecords,    \* manifest records on the Node: [id, issuer, run, task]; run 0 and
                  \*   task 0 = there before any call
  remoteRecords,  \* manifest records sent to the agent's remote DWN
  run,            \* number of setup() invocations so far
  pc,             \* position of the current setup() invocation
  found,          \* `protocols` of setup line 469
  readRes,        \* the array Promise.all builds in readRecords
  readOrder,      \* the indices of the reads of a readRecords in progress, in the
                  \*   order they completed
  missing,        \* the manifests handed to createRecords
  tasks,          \* the createManifestRecord invocations: [run, id, arg, data, st,
                  \*   create, send, error]
  calls,          \* calls made by the current run
  results,        \* outcome of every finished run, in order
  protoAtStart,   \* Len(nodeProtocols) when the current run started
  isSetup,        \* DcxIssuer.isSetup
  caught,         \* `error` of the catch clause of setup (line 501)
  thrown          \* what the promise of the current setup() rejected with

setupVars == <<manifests, nodeProtocols, remoteProtocols, nodeRecords, remoteRecords,
               run, pc, found, readRes, readOrder, missing, tasks, calls, results,
               protoAtStart, isSetup, caught, thrown>>

VARIABLES
  bound,          \* what this.<stage> holds for each of the four stages
  vp,             \* vp.verifiableCredential of the application record (line 410)
  providerId,     \* providerId handed to processRecord
  outputs,        \* manifest.output_descriptors: sequence of [id, name]
  ppc,            \* position of processRecord
  stageLog,       \* the stages processRecord has called, in order
  selected,       \* vcJwts (line 414)
  verified,       \* verified (line 418)
  pdOk,           \* whether satisfiesPresentationDefinition returned (line 93)
  response,       \* what fetch produced for requestCredential (line 207), if called
  data,           \* data (line 422)
  vc,             \* vc (line 425)
  nodeResponses,  \* response records on the Node
  authorReplica,  \* response records received by a remote DWN: [to, payload]
  failedAt,       \* the stage whose error ended the run, or "none"
  inflight        \* position of each of several processRecord() calls on one record

pipeVars == <<bound, vp, providerId, outputs, ppc, stageLog, selected, verified, pdOk,
              response, data, vc, nodeResponses, authorReplica, failedAt, inflight>>

VARIABLES
  options,        \* params.options: [given, handlers], handlers a sequence of [id, handler]
  dcxOptions,     \* this.dcxOptions: [defined, handlers]
  binding,        \* the four stage properties of the instance under construction
  ctorPc          \* "new", "done" or "threw"

ctorVars == <<options, dcxOptions, binding, ctorPc>>

vars == <<setupVars, pipeVars, ctorVars>>

\* ------------------------------------------------------------- pure helpers
RECURSIVE SeqsUpTo(_, _)
SeqsUpTo(S, n) ==
  IF n = 0 THEN {<<>>}
  ELSE LET shorter == SeqsUpTo(S, n - 1)
       IN shorter \cup {Append(s, x) : s \in {t \in shorter : Len(t) = n - 1}, x \in S}

\* manifest ids are interchangeable and so is the order in which the Node lists
\* its records: one configured list per renaming of ids (ids numbered by first
\* occurrence), one initial record list per permutation (ascending ids)
FirstOccurrenceOrder(s) ==
  \A i \in 1..Len(s) : \A v \in 1..(s[i] - 1) : \E j \in 1..(i - 1) : s[j] = v

Ascending(s) == \A i \in 1..Len(s) : \A j \in i..Len(s) : s[i] <= s[j]

Ids(s) == [i \in 1..Len(s) |-> s[i].id]

Payload(rec) == [id |-> rec.id, issuer |-> rec.issuer]

\* line 335-337: manifests.filter(m => E.find(e => m.id !== e.id))
FilterKeeps(m, E) == \E i \in 1..Len(E) : m.id # E[i].id

FilterRecords(M, E) == SelectSeq(M, LAMBDA m : FilterKeeps(m, E))

\* a reconciler that configures whatever the query returned
NeedsConfigureAlways(protocols) == TRUE

\* line 473: if (!protocols.length)
NeedsConfigure(protocols) == Len(protocols) = 0

ZeroCalls == [queryProtocols |-> 0, configureProtocols |-> 0, queryRecords |-> 0]

\* `protocols` of setup line 469 before queryProtocols has returned
NoProtocols == [returned |-> FALSE, protocols |-> <<>>]

\* ------------------------------------------------------------------- Init
SetupInit ==
  \* the configuration and the Node before the first setup()
  /\ \E iss \in {AgentDid, OtherDid} :
       manifests \in {[i \in 1..Len(s) |-> [id |-> s[i], issuer |-> iss]] :
                        s \in {t \in SeqsUpTo(ManifestIds, MaxManifests) :
                                 FirstOccurrenceOrder(t)}}
  /\ nodeProtocols \in SeqsUpTo({"canonical", "foreign"}, MaxInitProtocols)
  /\ remoteProtocols = 0
  /\ nodeRecords \in {[i \in 1..Len(s) |->
                          [id |-> s[i], issuer |-> AgentDid, run |-> 0, task |-> 0]] :
                        s \in {t \in SeqsUpTo(ManifestIds, MaxInitRecords) :
                                 Ascending(t)}}
  /\ remoteRecords = <<>>
  /\ run = 0
  /\ pc = "idle"
  /\ found = NoProtocols
  /\ readRes = <<>>
  /\ readOrder = <<>>
  /\ missing = <<>>
  /\ tasks = <<>>
  /\ calls = ZeroCalls
  /\ results = <<>>
  /\ protoAtStart = 0
  /\ isSetup = FALSE
  /\ caught = NoError
  /\ thrown = NoError
  \* no processRecord()
  /\ bound = [st \in Stages |-> "builtin"]
  /\ vp = <<>>
  /\ providerId = "undefined"
  /\ outputs = <<>>
  /\ ppc = "idle"
  /\ stageLog = <<>>
  /\ selected = <<>>
  /\ verified = <<>>
  /\ pdOk = FALSE
  /\ response = NoResponse
  /\ data = NoData
  /\ vc = NoVc
  /\ nodeResponses = <<>>
  /\ authorReplica = <<>>
  /\ failedAt = "none"
  /\ inflight = [k \in 1..MaxInvocations |-> "idle"]
  \* no constructor call
  /\ options = [given |-> FALSE, handlers |-> <<>>]
  /\ dcxOptions = Undefined
  /\ binding = [st \in Stages |-> "builtin"]
  /\ ctorPc = "new"

\* ------------------------------------------------------------ setup(): steps
\* a catch clause that wraps what it caught
FailWrapped(err) ==
  /\ pc' = "failed"
  /\ results' = Append(results, "failed")
  /\ caught' = err
  /\ thrown' = [name |-> "SetupError", status |-> NoStatus]

\* an awaited call of setup rejects: catch (error) { ...; throw error } (lines 501-504)
Fail(err) ==
  /\ pc' = "failed"
  /\ results' = Append(results, "failed")
  /\ caught' = err
  /\ thrown' = err

\* setup() runs to its first await: line 469 calls queryProtocols
EnterSetup ==
  /\ run' = run + 1
  /\ pc' = "queryProtocols"
  /\ calls' = [ZeroCalls EXCEPT !.queryProtocols = 1]
  /\ protoAtStart' = Len(nodeProtocols)
  /\ found' = NoProtocols
  /\ readRes' = <<>>
  /\ readOrder' = <<>>
  /\ missing' = <<>>
  /\ caught' = NoError
  /\ thrown' = NoError
  /\ UNCHANGED <<manifests, nodeProtocols, remoteProtocols, nodeRecords, remoteRecords,
                 tasks, results, isSetup, pipeVars, ctorVars>>

\* setup() is invoked for the first time
StartSetup ==
  /\ pc = "idle"
  /\ EnterSetup

\* setup() is invoked again, after the previous invocation returned or threw
Rerun ==
  /\ pc \in {"complete", "failed"}
  /\ run < MaxRuns
  /\ EnterSetup

\* queryProtocols returns (lines 226-243), then setup lines 470-480
QueryProtocolsReturn ==
  /\ pc = "queryProtocols"
  /\ \E ok \in BOOLEAN :
       IF ~ok
       THEN /\ Fail(DwnError(Status("protocols.query", TRUE)))
            /\ UNCHANGED <<found, calls>>
       ELSE /\ found' = [returned |-> TRUE, protocols |-> nodeProtocols]
            /\ UNCHANGED <<results, caught, thrown>>
            /\ IF NeedsConfigure(nodeProtocols)
               THEN /\ pc' = "configure"
                    /\ calls' = [calls EXCEPT !.configureProtocols = @ + 1]
               ELSE /\ pc' = "queryRecords"
                    /\ calls' = [calls EXCEPT !.queryRecords = @ + 1]
  /\ UNCHANGED <<manifests, nodeProtocols, remoteProtocols, nodeRecords, remoteRecords,
                 run, readRes, readOrder, missing, tasks, protoAtStart, isSetup,
                 pipeVars, ctorVars>>

\* lines 258-262: the error thrown when configure failed or returned no protocol
ConfigureError(outcome) == DwnError(Status("protocols.configure", outcome = "failure"))

\* web5.dwn.protocols.configure returns (lines 250-264)
ConfigureReturn ==
  /\ pc = "configure"
  /\ \E outcome \in {"failure", "noProtocol", "ok"} :
       IF outcome = "ok"
       THEN /\ nodeProtocols' = Append(nodeProtocols, "canonical")
            /\ pc' = "protocolSend"
            /\ UNCHANGED <<results, caught, thrown>>
       ELSE /\ Fail(ConfigureError(outcome))
            /\ UNCHANGED nodeProtocols
  /\ UNCHANGED <<manifests, remoteProtocols, nodeRecords, remoteRecords, run, found,
                 readRes, readOrder, missing, tasks, calls, protoAtStart, isSetup,
                 pipeVars, ctorVars>>

\* protocol.send returns (lines 264-274), then setup line 480 calls queryRecords
ProtocolSendReturn ==
  /\ pc = "protocolSend"
  /\ \E ok \in BOOLEAN :
       IF ok
       THEN /\ remoteProtocols' = remoteProtocols + 1
            /\ pc' = "queryRecords"
            /\ calls' = [calls EXCEPT !.queryRecords = @ + 1]
            /\ UNCHANGED <<results, caught, thrown>>
       ELSE /\ Fail(DwnError(Status("protocol.send", TRUE)))
            /\ UNCHANGED <<remoteProtocols, calls>>
  /\ UNCHANGED <<manifests, nodeProtocols, nodeRecords, remoteRecords, run, found,
                 readRes, readOrder, missing, tasks, protoAtStart, isSetup, pipeVars, ctorVars>>

\* a createManifestRecord that stores the manifest as it was handed in
WithOriginalIssuer(m) == m

\* line 347: manifestRecord.issuer.id = this.agent.agentDid.uri
WithAgentIssuer(m) == [m EXCEPT !.issuer = AgentDid]

\* createManifestRecord({manifestRecord: m}) runs to its first await (lines
\* 347-358): `data` is the manifest object after line 347
NewTask(m) ==
  [run |-> run, id |-> m.id, arg |-> m, data |-> WithAgentIssuer(m), st |-> "create",
   create |-> "pending", send |-> "none", error |-> NoError]

\* createRecords (lines 389-395): every createManifestRecord runs to its first
\* await: issuer.id is rewritten (line 347) and records.create is called
StartCreates(toCreate, created) ==
  /\ missing' = toCreate
  /\ manifests' = [i \in 1..Len(manifests) |->
                     IF i \in created
                     THEN WithAgentIssuer(manifests[i])
                     ELSE manifests[i]]
  /\ tasks' = tasks \o [i \in 1..Len(toCreate) |-> NewTask(toCreate[i])]
  /\ pc' = "creating"

\* setup lines 487-498, entered with the manifests read from the Node
Reconcile(E) ==
  IF Len(E) = 0
  THEN StartCreates(manifests, 1..Len(manifests))
  ELSE StartCreates(FilterRecords(manifests, E),
                    {i \in 1..Len(manifests) : FilterKeeps(manifests[i], E)})

\* queryRecords returns (lines 281-303); readRecords issues one read per record
QueryRecordsReturn ==
  /\ pc = "queryRecords"
  /\ \E ok \in BOOLEAN :
       IF ~ok
       THEN /\ Fail(DwnError(Status("records.query", TRUE)))
            /\ UNCHANGED <<readRes, readOrder>>
       ELSE /\ readRes' = [i \in 1..Len(nodeRecords) |-> Pending]
            /\ readOrder' = <<>>
            /\ pc' = "readRecords"
            /\ UNCHANGED <<results, caught, thrown>>
  /\ UNCHANGED <<manifests, nodeProtocols, remoteProtocols, nodeRecords, remoteRecords,
                 run, found, missing, tasks, calls, protoAtStart, isSetup, pipeVars, ctorVars>>

\* a Promise.all that collects the values in the order they arrive
SettleInCompletionOrder(res, i, value) ==
  [res EXCEPT ![CHOOSE j \in 1..Len(res) :
                  res[j] = Pending /\ \A l \in 1..(j - 1) : res[l] # Pending] = value]

\* Promise.all (line 312): the value of the i-th promise becomes the i-th
\* element of the array, whenever it arrives
Settle(res, i, value) == [res EXCEPT ![i] = value]

\* one web5.dwn.records.read returns (lines 314-321); reads complete in any order
ReadReturn ==
  /\ pc = "readRecords"
  /\ \E i \in 1..Len(readRes) :
       /\ readRes[i] = Pending
       /\ \E ok \in BOOLEAN :
            IF ok
            THEN /\ readRes' = Settle(readRes, i, Payload(nodeRecords[i]))
                 /\ readOrder' = Append(readOrder, i)
                 /\ UNCHANGED <<pc, results, caught, thrown>>
            ELSE /\ Fail(ReadError)
                 /\ UNCHANGED <<readRes, readOrder>>
  /\ UNCHANGED <<manifests, nodeProtocols, remoteProtocols, nodeRecords, remoteRecords,
                 run, found, missing, tasks, calls, protoAtStart, isSetup, pipeVars, ctorVars>>

\* Promise.all of readRecords resolves (line 312), then setup lines 485-496
ReadJoin ==
  /\ pc = "readRecords"
  /\ \A i \in 1..Len(readRes) : readRes[i] # Pending
  /\ Reconcile(readRes)
  /\ readOrder' = <<>>
  /\ UNCHANGED <<nodeProtocols, remoteProtocols, nodeRecords, remoteRecords, run, found,
                 readRes, calls, results, protoAtStart, isSetup, caught, thrown,
                 pipeVars, ctorVars>>

\* createManifestRecord number k throws: its task becomes `failedTask`; the
\* rejection rejects Promise.all (line 390) and setup rethrows (line 503), once;
\* the other invocations keep running
TaskFails(k, failedTask) ==
  /\ tasks' = [tasks EXCEPT ![k] = failedTask]
  /\ IF tasks[k].run = run /\ pc = "creating"
     THEN Fail(failedTask.error)
     ELSE UNCHANGED <<pc, results, caught, thrown>>

\* a createManifestRecord that reports every failed create as a Node error
CreateErrorNodeOnly(outcome) == DwnError(Status("records.create", outcome = "failure"))

\* lines 360-370: the error thrown when create failed or returned no record
CreateError(outcome) ==
  IF outcome = "failure" THEN DwnError(Status("records.create", TRUE))
  ELSE DcxDwnError

\* web5.dwn.records.create returns (lines 348-372)
CreateReturn ==
  /\ \E k \in 1..Len(tasks) :
       /\ tasks[k].st = "create"
       /\ \E outcome \in {"failure", "noRecord", "ok"} :
            IF outcome = "ok"
            THEN /\ nodeRecords' = Append(nodeRecords,
                      [id |-> tasks[k].data.id, issuer |-> tasks[k].data.issuer,
                       run |-> tasks[k].run, task |-> k])
                 /\ tasks' = [tasks EXCEPT ![k].st = "send", ![k].create = "ok",
                                           ![k].send = "pending"]
                 /\ UNCHANGED <<pc, results, caught, thrown>>
            ELSE /\ TaskFails(k, [tasks[k] EXCEPT !.st = "failed", !.create = outcome,
                                                 !.error = CreateError(outcome)])
                 /\ UNCHANGED nodeRecords
  /\ UNCHANGED <<manifests, nodeProtocols, remoteProtocols, remoteRecords, run, found,
                 readRes, readOrder, missing, calls, protoAtStart, isSetup, pipeVars, ctorVars>>

\* record.send returns (lines 372-381)
SendReturn ==
  /\ \E k \in 1..Len(tasks) :
       /\ tasks[k].st = "send"
       /\ \E ok \in BOOLEAN :
            IF ok
            THEN /\ remoteRecords' = Append(remoteRecords,
                      [id |-> tasks[k].data.id, issuer |-> tasks[k].data.issuer,
                       run |-> tasks[k].run, task |-> k])
                 /\ tasks' = [tasks EXCEPT ![k].st = "done", ![k].send = "ok"]
                 /\ UNCHANGED <<pc, results, caught, thrown>>
            ELSE /\ TaskFails(k, [tasks[k] EXCEPT !.st = "failed", !.send = "failure",
                                    !.error = DwnError(Status("record.send", TRUE))])
                 /\ UNCHANGED remoteRecords
  /\ UNCHANGED <<manifests, nodeProtocols, remoteProtocols, nodeRecords, run, found,
                 readRes, readOrder, missing, calls, protoAtStart, isSetup, pipeVars, ctorVars>>

\* Promise.all of createRecords resolves (lines 390-396); setup returns (line 500)
CreateJoin ==
  /\ pc = "creating"
  /\ \A k \in 1..Len(tasks) : tasks[k].run = run => tasks[k].st = "done"
  /\ pc' = "complete"
  /\ results' = Append(results, "complete")
  /\ UNCHANGED <<manifests, nodeProtocols, remoteProtocols, nodeRecords, remoteRecords,
                 run, found, readRes, readOrder, missing, tasks, calls, protoAtStart, isSetup,
                 caught, thrown, pipeVars, ctorVars>>

SetupNext ==
  \/ StartSetup
  \/ QueryProtocolsReturn
  \/ ConfigureReturn
  \/ ProtocolSendReturn
  \/ QueryRecordsReturn
  \/ ReadReturn
  \/ ReadJoin
  \/ CreateReturn
  \/ SendReturn
  \/ CreateJoin

RerunNext ==
  \/ StartSetup
  \/ Rerun
  \/ QueryProtocolsReturn
  \/ ConfigureReturn
  \/ ProtocolSendReturn
  \/ QueryRecordsReturn
  \/ ReadReturn
  \/ ReadJoin
  \/ CreateReturn
  \/ SendReturn
  \/ CreateJoin

\* ------------------------------------------------- processRecord(): helpers
Pick(s, I) ==
  LET F[i \in 0..Len(s)] ==
        IF i = 0 THEN <<>>
        ELSE IF i \in I THEN Append(F[i - 1], s[i]) ELSE F[i - 1]
  IN F[Len(s)]

SubSeqs(s) == {Pick(s, I) : I \in SUBSET (1..Len(s))}

\* a credential token: what parseJwt and verify make of it
Tokens == [subject : {AuthorDid, OtherDid}, issuer : TokenIssuers,
           verify : {"ok", "empty", "undefined"}]

\* VerifiableCredential.parseJwt (line 103): the claims of the token, not its signature
ParseJwt(vcJwt) ==
  [jti |-> vcJwt.jti, subject |-> vcJwt.subject, vcDataModel |-> [issuer |-> vcJwt.issuer]]

\* an allow-list that forgets the static trusted issuers
IssuerDidSetOptionsOnly == OptionIssuers

\* line 111-112
IssuerDidSet == OptionIssuers \cup StaticIssuers

\* line 119: !verified || Objects.isEmpty(verified)
VerificationFailed(verifyResult) == verifyResult = "undefined" \/ verifyResult = "empty"

\* line 106
SubjectMismatch(parsed, subjectDid) == parsed.subject # subjectDid

\* line 114
IssuerUntrusted(parsed) == parsed.vcDataModel.issuer \notin IssuerDidSet

\* the loop of verifyCredentials (lines 98-125)
RECURSIVE VerifyLoop(_, _, _, _)
VerifyLoop(vcJwts, i, subjectDid, verifiedCredentials) ==
  IF i > Len(vcJwts) THEN verifiedCredentials
  ELSE LET parsed == ParseJwt(vcJwts[i])
       IN IF SubjectMismatch(parsed, subjectDid)
          THEN VerifyLoop(vcJwts, i + 1, subjectDid, verifiedCredentials)
          ELSE IF IssuerUntrusted(parsed)
          THEN VerifyLoop(vcJwts, i + 1, subjectDid, verifiedCredentials)
          ELSE IF VerificationFailed(vcJwts[i].verify)
          THEN VerifyLoop(vcJwts, i + 1, subjectDid, verifiedCredentials)
          ELSE VerifyLoop(vcJwts, i + 1, subjectDid, Append(verifiedCredentials, parsed))

VerifyCredentials(vcJwts, subjectDid) == VerifyLoop(vcJwts, 1, subjectDid, <<>>)

\* what fetch and response.json() (lines 207-214) can produce
HttpOutcomes ==
  {[transport |-> FALSE, status |-> 0, json |-> FALSE]}
    \cup {[transport |-> TRUE, status |-> st, json |-> j] : st \in {200, 500}, j \in BOOLEAN}

\* requestCredential (lines 200-217): "throw" or the parsed body
RequestCredential(id, http) ==
  IF id \notin Providers THEN "throw"
  ELSE IF ~http.transport THEN "throw"
  ELSE IF ~http.json THEN "throw"
  ELSE "returned"

\* an issueCredential that binds to the manifest's last output descriptor
IssueCredentialLast(d, subjectDid, descriptors) ==
  LET manifestOutputDescriptor == descriptors[Len(descriptors)]
  IN [subject |-> subjectDid, issuer |-> AgentDid, type |-> manifestOutputDescriptor.name,
      data |-> d,
      descriptor_map |-> <<[id |-> manifestOutputDescriptor.id, format |-> "jwt_vc",
                            path |-> "$.verifiableCredential[0]"]>>]

\* issueCredential (lines 159-184)
IssueCredential(d, subjectDid, descriptors) ==
  LET manifestOutputDescriptor == descriptors[1]
  IN [subject |-> subjectDid, issuer |-> AgentDid, type |-> manifestOutputDescriptor.name,
      data |-> d,
      descriptor_map |-> <<[id |-> manifestOutputDescriptor.id, format |-> "jwt_vc",
                            path |-> "$.verifiableCredential[0]"]>>]

\* the response record records.create is asked to make (lines 427-436): store
\* is set, message.published is not
ResponseRecord(payload) ==
  [data |-> payload, store |-> TRUE, published |-> FALSE,
   schema |-> "responseSchema", protocolPath |-> "application/response"]

\* a send with no target, as createManifestRecord's (line 372): it goes to the
\* agent's own remote DWN
SendTargetAgent(recordAuthor) == AgentDid

\* responseRecord.send(recordAuthor) (line 448): the DID the record is sent to
SendTarget(recordAuthor) == recordAuthor

PipeInit ==
  \* the arguments of processRecord() and the bindings of the instance
  /\ bound \in [Stages -> {"builtin", "override"}]
  /\ vp \in {[i \in 1..Len(s) |-> [jti |-> i, subject |-> s[i].subject,
                                     issuer |-> s[i].issuer, verify |-> s[i].verify]] :
               s \in SeqsUpTo(Tokens, MaxVp)}
  /\ providerId \in Providers \cup {"undefined"}
  /\ outputs \in {[i \in 1..n |-> [id |-> i, name |-> i]] : n \in 1..MaxDescriptors}
  /\ ppc = "idle"
  /\ stageLog = <<>>
  /\ selected = <<>>
  /\ verified = <<>>
  /\ pdOk = FALSE
  /\ response = NoResponse
  /\ data = NoData
  /\ vc = NoVc
  /\ nodeResponses = <<>>
  /\ authorReplica = <<>>
  /\ failedAt = "none"
  /\ inflight = [k \in 1..MaxInvocations |-> "idle"]
  \* no setup()
  /\ manifests = <<>>
  /\ nodeProtocols = <<>>
  /\ remoteProtocols = 0
  /\ nodeRecords = <<>>
  /\ remoteRecords = <<>>
  /\ run = 0
  /\ pc = "idle"
  /\ found = NoProtocols
  /\ readRes = <<>>
  /\ readOrder = <<>>
  /\ missing = <<>>
  /\ tasks = <<>>
  /\ calls = ZeroCalls
  /\ results = <<>>
  /\ protoAtStart = 0
  /\ isSetup = FALSE
  /\ caught = NoError
  /\ thrown = NoError
  \* no constructor call
  /\ options = [given |-> FALSE, handlers |-> <<>>]
  /\ dcxOptions = Undefined
  /\ binding = [st \in Stages |-> "builtin"]
  /\ ctorPc = "new"

\* --------------------------------------------------- processRecord(): steps
\* a pipeline that swallows a stage's error and goes on to send a response
PFailContinue(stage) ==
  /\ ppc' = IF stage = "send" THEN "error" ELSE "send"
  /\ failedAt' = stage

\* a pipeline that runs a failed stage again
PFailRetry(stage) ==
  /\ ppc' = IF stage \in {"select", "verify", "request", "issue", "create", "send"}
            THEN stage ELSE "error"
  /\ failedAt' = stage

\* a stage throws: processRecord has no catch, its promise rejects (lines 406-458)
PFail(stage) ==
  /\ ppc' = "error"
  /\ failedAt' = stage

\* processRecord is invoked and awaits record.data.json() (line 410)
StartProcess ==
  /\ ppc = "idle"
  /\ ppc' = "json"
  /\ UNCHANGED <<bound, vp, providerId, outputs, stageLog, selected, verified, pdOk, response,
                 data, vc, nodeResponses, authorReplica, failedAt, inflight, setupVars, ctorVars>>

\* record.data.json() settles (line 410)
JsonReturn ==
  /\ ppc = "json"
  /\ \E ok \in BOOLEAN :
       IF ok THEN ppc' = "select" /\ UNCHANGED failedAt
       ELSE PFail("json")
  /\ UNCHANGED <<bound, vp, providerId, outputs, stageLog, selected, verified, pdOk, response,
                 data, vc, nodeResponses, authorReplica, inflight, setupVars, ctorVars>>

\* this.selectCredentials(vp, manifest) (line 414); the built-in (lines 135-144)
\* returns the tokens the library's matcher selects from vp.verifiableCredential,
\* an override some tokens of its choice: either way some of them, or a throw
SelectStage ==
  /\ ppc = "select"
  /\ stageLog' = Append(stageLog, "select")
  /\ \/ \E sel \in SubSeqs(vp) :
          /\ selected' = sel
          /\ ppc' = "verify"
          /\ UNCHANGED failedAt
     \/ /\ PFail("select")
        /\ UNCHANGED selected
  /\ UNCHANGED <<bound, vp, providerId, outputs, verified, pdOk, response, data, vc,
                 nodeResponses, authorReplica, inflight, setupVars, ctorVars>>

\* a verifyCredentials that throws when no credential passes its filters
VerifyBuiltinStrict ==
  \E satisfied \in BOOLEAN :
    /\ pdOk' = satisfied
    /\ IF satisfied /\ VerifyCredentials(selected, AuthorDid) # <<>>
       THEN /\ verified' = VerifyCredentials(selected, AuthorDid)
            /\ ppc' = "request"
            /\ UNCHANGED failedAt
       ELSE /\ PFail("verify")
            /\ UNCHANGED verified

\* the built-in verifyCredentials (lines 88-126) called on `selected`
VerifyBuiltin ==
  \E satisfied \in BOOLEAN :
    /\ pdOk' = satisfied
    /\ IF satisfied
       THEN /\ verified' = VerifyCredentials(selected, AuthorDid)
            /\ ppc' = "request"
            /\ UNCHANGED failedAt
       ELSE /\ PFail("verify")
            /\ UNCHANGED verified

\* a caller-supplied verifyCredentials: returns some of its input, or throws
VerifyOverride ==
  /\ UNCHANGED pdOk
  /\ \/ \E kept \in SubSeqs(selected) :
          /\ verified' = [i \in 1..Len(kept) |-> ParseJwt(kept[i])]
          /\ ppc' = "request"
          /\ UNCHANGED failedAt
     \/ /\ PFail("verify")
        /\ UNCHANGED verified

\* this.verifyCredentials(vcJwts, manifest, recordAuthor) (line 418)
VerifyStage ==
  /\ ppc = "verify"
  /\ stageLog' = Append(stageLog, "verify")
  /\ IF bound["verifyCredentials"] = "builtin" THEN VerifyBuiltin ELSE VerifyOverride
  /\ UNCHANGED <<bound, vp, providerId, outputs, selected, response, data, vc,
                 nodeResponses, authorReplica, inflight, setupVars, ctorVars>>

\* this.requestCredential({body: {vcs: verified}, id: providerId}) (line 422)
RequestStage ==
  /\ ppc = "request"
  /\ stageLog' = Append(stageLog, "request")
  /\ IF bound["requestCredential"] = "builtin"
     THEN IF providerId \notin Providers
          THEN /\ PFail("request")
               /\ UNCHANGED <<data, response>>
          ELSE \E http \in HttpOutcomes :
                 /\ response' = http
                 /\ IF RequestCredential(providerId, http) = "returned"
                    THEN /\ data' = [status |-> http.status, by |-> "provider"]
                         /\ ppc' = "issue"
                         /\ UNCHANGED failedAt
                    ELSE /\ PFail("request")
                         /\ UNCHANGED data
     ELSE /\ UNCHANGED response
          /\ \/ /\ data' = [status |-> 0, by |-> "override"]
                /\ ppc' = "issue"
                /\ UNCHANGED failedAt
             \/ /\ PFail("request")
                /\ UNCHANGED data
  /\ UNCHANGED <<bound, vp, providerId, outputs, selected, verified, pdOk, vc,
                 nodeResponses, authorReplica, inflight, setupVars, ctorVars>>

\* this.issueCredential(data, recordAuthor, manifest) (line 425)
IssueStage ==
  /\ ppc = "issue"
  /\ stageLog' = Append(stageLog, "issue")
  /\ \/ /\ vc' = IF bound["issueCredential"] = "builtin"
                  THEN IssueCredential(data, AuthorDid, outputs)
                  ELSE OverrideVc
        /\ ppc' = "create"
        /\ UNCHANGED failedAt
     \/ /\ PFail("issue")
        /\ UNCHANGED vc
  /\ UNCHANGED <<bound, vp, providerId, outputs, selected, verified, pdOk, response,
                 data, nodeResponses, authorReplica, inflight, setupVars, ctorVars>>

\* web5.dwn.records.create for the response record (lines 427-446)
CreateStage ==
  /\ ppc = "create"
  /\ stageLog' = Append(stageLog, "create")
  /\ \E outcome \in {"failure", "noRecord", "ok"} :
       IF outcome = "ok"
       THEN /\ nodeResponses' = Append(nodeResponses, ResponseRecord(vc))
            /\ ppc' = "send"
            /\ UNCHANGED failedAt
       ELSE /\ PFail("create")
            /\ UNCHANGED nodeResponses
  /\ UNCHANGED <<bound, vp, providerId, outputs, selected, verified, pdOk, response,
                 data, vc, authorReplica, inflight, setupVars, ctorVars>>

\* responseRecord.send(recordAuthor) (lines 448-457)
SendStage ==
  /\ ppc = "send"
  /\ stageLog' = Append(stageLog, "send")
  /\ \E ok \in BOOLEAN :
       IF ok
       THEN /\ authorReplica' = Append(authorReplica,
                                       [to |-> SendTarget(AuthorDid), payload |-> vc])
            /\ ppc' = "done"
            /\ UNCHANGED failedAt
       ELSE /\ PFail("send")
            /\ UNCHANGED authorReplica
  /\ UNCHANGED <<bound, vp, providerId, outputs, selected, verified, pdOk, response,
                 data, vc, nodeResponses, inflight, setupVars, ctorVars>>

PipeNext ==
  \/ StartProcess
  \/ JsonReturn
  \/ SelectStage
  \/ VerifyStage
  \/ RequestStage
  \/ IssueStage
  \/ CreateStage
  \/ SendStage

\* verifyCredentials alone, on every token list of up to MaxTokens tokens
VerifyInit ==
  \* the argument of verifyCredentials
  /\ bound = [st \in Stages |-> "builtin"]
  /\ vp = <<>>
  /\ providerId = "undefined"
  /\ outputs = <<>>
  /\ ppc = "verify"
  /\ stageLog = <<>>
  /\ selected \in {[i \in 1..Len(s) |-> [jti |-> i, subject |-> s[i].subject,
                                           issuer |-> s[i].issuer, verify |-> s[i].verify]] :
                     s \in SeqsUpTo(Tokens, MaxTokens)}
  /\ verified = <<>>
  /\ pdOk = FALSE
  /\ response = NoResponse
  /\ data = NoData
  /\ vc = NoVc
  /\ nodeResponses = <<>>
  /\ authorReplica = <<>>
  /\ failedAt = "none"
  /\ inflight = [k \in 1..MaxInvocations |-> "idle"]
  \* no setup()
  /\ manifests = <<>>
  /\ nodeProtocols = <<>>
  /\ remoteProtocols = 0
  /\ nodeRecords = <<>>
  /\ remoteRecords = <<>>
  /\ run = 0
  /\ pc = "idle"
  /\ found = NoProtocols
  /\ readRes = <<>>
  /\ readOrder = <<>>
  /\ missing = <<>>
  /\ tasks = <<>>
  /\ calls = ZeroCalls
  /\ results = <<>>
  /\ protoAtStart = 0
  /\ isSetup = FALSE
  /\ caught = NoError
  /\ thrown = NoError
  \* no constructor call
  /\ options = [given |-> FALSE, handlers |-> <<>>]
  /\ dcxOptions = Undefined
  /\ binding = [st \in Stages |-> "builtin"]
  /\ ctorPc = "new"

VerifyCall ==
  /\ ppc = "verify"
  /\ stageLog' = Append(stageLog, "verify")
  /\ VerifyBuiltin
  /\ UNCHANGED <<bound, vp, providerId, outputs, selected, response, data, vc,
                 nodeResponses, authorReplica, inflight, setupVars, ctorVars>>

VerifyNext == VerifyCall

\* ------------------------------------------------------------- constructor
HandlerIds == Stages \cup {"other"}

\* handlers.find(h => h.id === id)?.handler ?? staticHandler (line 78), on the
\* value this.dcxOptions has when the constructor calls it
FindHandler(opts, id, staticHandler) ==
  IF ~opts.defined THEN "TypeError"
  ELSE LET hits == {i \in 1..Len(opts.handlers) : opts.handlers[i].id = id}
       IN IF hits = {} THEN staticHandler
          ELSE opts.handlers[CHOOSE i \in hits : \A j \in hits : i <= j].handler

CtorInit ==
  \* params.options and the fields of the new instance
  /\ options \in {[given |-> FALSE, handlers |-> <<>>]} \cup
       {[given |-> TRUE,
         handlers |-> [i \in 1..Len(s) |-> [id |-> s[i], handler |-> "override"]]] :
          s \in SeqsUpTo(HandlerIds, MaxHandlers)}
  /\ dcxOptions = Undefined
  /\ binding = [st \in Stages |-> "builtin"]
  /\ ctorPc = "new"
  \* no setup()
  /\ manifests = <<>>
  /\ nodeProtocols = <<>>
  /\ remoteProtocols = 0
  /\ nodeRecords = <<>>
  /\ remoteRecords = <<>>
  /\ run = 0
  /\ pc = "idle"
  /\ found = NoProtocols
  /\ readRes = <<>>
  /\ readOrder = <<>>
  /\ missing = <<>>
  /\ tasks = <<>>
  /\ calls = ZeroCalls
  /\ results = <<>>
  /\ protoAtStart = 0
  /\ isSetup = FALSE
  /\ caught = NoError
  /\ thrown = NoError
  \* no processRecord()
  /\ bound = [st \in Stages |-> "builtin"]
  /\ vp = <<>>
  /\ providerId = "undefined"
  /\ outputs = <<>>
  /\ ppc = "idle"
  /\ stageLog = <<>>
  /\ selected = <<>>
  /\ verified = <<>>
  /\ pdOk = FALSE
  /\ response = NoResponse
  /\ data = NoData
  /\ vc = NoVc
  /\ nodeResponses = <<>>
  /\ authorReplica = <<>>
  /\ failedAt = "none"
  /\ inflight = [k \in 1..MaxInvocations |-> "idle"]

\* new DcxIssuer(params): lines 59-62 run before line 67 assigns this.dcxOptions
Construct ==
  /\ ctorPc = "new"
  /\ LET resolved == [st \in Stages |-> FindHandler(dcxOptions, st, "builtin")]
     IN IF \E st \in Stages : resolved[st] = "TypeError"
        THEN /\ ctorPc' = "threw"
             /\ UNCHANGED <<binding, dcxOptions>>
        ELSE /\ binding' = resolved
             /\ dcxOptions' = [defined |-> TRUE, handlers |-> options.handlers]
             /\ ctorPc' = "done"
  /\ UNCHANGED <<options, setupVars, pipeVars>>

CtorNext == Construct

\* ------------------------------------ processRecord(): overlapping invocations
\* the awaits of processRecord, in order (lines 410, 418, 422, 425, 427, 448)
Positions == <<"json", "verify", "request", "issue", "create", "send">>

InFlight == {Positions[i] : i \in 1..Len(Positions)}

\* where an invocation goes on when the call it awaits has settled well
After(position) ==
  LET i == CHOOSE j \in 1..Len(Positions) : Positions[j] = position
  IN IF i = Len(Positions) THEN "done" ELSE Positions[i + 1]

\* the data the provider answers with (line 422)
ProviderData == [status |-> 200, by |-> "provider"]

OverlapInit ==
  \* one application record, processRecord() not yet called on it
  /\ inflight = [k \in 1..MaxInvocations |-> "idle"]
  /\ bound = [st \in Stages |-> "builtin"]
  /\ vp = <<>>
  /\ providerId = "provider"
  /\ outputs \in {[i \in 1..n |-> [id |-> i, name |-> i]] : n \in 1..MaxDescriptors}
  /\ ppc = "idle"
  /\ stageLog = <<>>
  /\ selected = <<>>
  /\ verified = <<>>
  /\ pdOk = FALSE
  /\ response = NoResponse
  /\ data = NoData
  /\ vc = NoVc
  /\ nodeResponses = <<>>
  /\ authorReplica = <<>>
  /\ failedAt = "none"
  \* no setup()
  /\ manifests = <<>>
  /\ nodeProtocols = <<>>
  /\ remoteProtocols = 0
  /\ nodeRecords = <<>>
  /\ remoteRecords = <<>>
  /\ run = 0
  /\ pc = "idle"
  /\ found = NoProtocols
  /\ readRes = <<>>
  /\ readOrder = <<>>
  /\ missing = <<>>
  /\ tasks = <<>>
  /\ calls = ZeroCalls
  /\ results = <<>>
  /\ protoAtStart = 0
  /\ isSetup = FALSE
  /\ caught = NoError
  /\ thrown = NoError
  \* no constructor call
  /\ options = [given |-> FALSE, handlers |-> <<>>]
  /\ dcxOptions = Undefined
  /\ binding = [st \in Stages |-> "builtin"]
  /\ ctorPc = "new"

\* processRecord is called on the record while the previous call on the same
\* record has not settled; nothing in lines 406-410 looks at calls in progress
OverlapInvoke ==
  /\ \E k \in 1..MaxInvocations :
       /\ inflight[k] = "idle"
       /\ IF k = 1 THEN TRUE ELSE inflight[k - 1] \in InFlight
       /\ inflight' = [inflight EXCEPT ![k] = "json"]
  /\ UNCHANGED <<bound, vp, providerId, outputs, ppc, stageLog, selected, verified, pdOk,
                 response, data, vc, nodeResponses, authorReplica, failedAt,
                 setupVars, ctorVars>>

\* the call one invocation awaits settles (lines 410-457): on a rejection or a
\* failure status the invocation throws, else it runs on to its next await; a
\* create that succeeded has stored a response record (lines 427-436), a send
\* that succeeded has delivered it to the author (line 448)
OverlapReturn ==
  /\ \E k \in 1..MaxInvocations :
       /\ inflight[k] \in InFlight
       /\ \E ok \in BOOLEAN :
            IF ~ok
            THEN /\ inflight' = [inflight EXCEPT ![k] = "error"]
                 /\ UNCHANGED <<nodeResponses, authorReplica>>
            ELSE /\ inflight' = [inflight EXCEPT ![k] = After(inflight[k])]
                 /\ nodeResponses' =
                      IF inflight[k] = "create"
                      THEN Append(nodeResponses,
                             ResponseRecord(IssueCredential(ProviderData, AuthorDid, outputs)))
                      ELSE nodeResponses
                 /\ authorReplica' =
                      IF inflight[k] = "send"
                      THEN Append(authorReplica,
                             [to |-> SendTarget(AuthorDid),
                              payload |-> IssueCredential(ProviderData, AuthorDid, outputs)])
                      ELSE authorReplica
  /\ UNCHANGED <<bound, vp, providerId, outputs, ppc, stageLog, selected, verified, pdOk,
                 response, data, vc, failedAt, setupVars, ctorVars>>

OverlapNext ==
  \/ OverlapInvoke
  \/ OverlapReturn

\* ------------------------------- createManifestRecord() then readRecords()
RoundTripInit ==
  \* the configuration and a Node without manifest records, no call made yet
  /\ \E iss \in {AgentDid, OtherDid} :
       manifests \in {[i \in 1..Len(s) |-> [id |-> s[i], issuer |-> iss]] :
                        s \in {t \in SeqsUpTo(ManifestIds, MaxManifests) :
                                 FirstOccurrenceOrder(t)}}
  /\ nodeProtocols = <<"canonical">>
  /\ remoteProtocols = 0
  /\ nodeRecords = <<>>
  /\ remoteRecords = <<>>
  /\ run = 0
  /\ pc = "idle"
  /\ found = NoProtocols
  /\ readRes = <<>>
  /\ readOrder = <<>>
  /\ missing = <<>>
  /\ tasks = <<>>
  /\ calls = ZeroCalls
  /\ results = <<>>
  /\ protoAtStart = 0
  /\ isSetup = FALSE
  /\ caught = NoError
  /\ thrown = NoError
  \* no processRecord()
  /\ bound = [st \in Stages |-> "builtin"]
  /\ vp = <<>>
  /\ providerId = "undefined"
  /\ outputs = <<>>
  /\ ppc = "idle"
  /\ stageLog = <<>>
  /\ selected = <<>>
  /\ verified = <<>>
  /\ pdOk = FALSE
  /\ response = NoResponse
  /\ data = NoData
  /\ vc = NoVc
  /\ nodeResponses = <<>>
  /\ authorReplica = <<>>
  /\ failedAt = "none"
  /\ inflight = [k \in 1..MaxInvocations |-> "idle"]
  \* no constructor call
  /\ options = [given |-> FALSE, handlers |-> <<>>]
  /\ dcxOptions = Undefined
  /\ binding = [st \in Stages |-> "builtin"]
  /\ ctorPc = "new"

\* createManifestRecord({manifestRecord}) is called on the next configured
\* manifest and runs to its first await (lines 346-358)
CreateManifestCall ==
  /\ Len(tasks) < Len(manifests)
  /\ LET i == Len(tasks) + 1
     IN /\ manifests' = [manifests EXCEPT ![i] = WithAgentIssuer(manifests[i])]
        /\ tasks' = Append(tasks, NewTask(manifests[i]))
  /\ UNCHANGED <<nodeProtocols, remoteProtocols, nodeRecords, remoteRecords, run, pc, found,
                 readRes, readOrder, missing, calls, results, protoAtStart, isSetup, caught, thrown,
                 pipeVars, ctorVars>>

\* readRecords({records}) is called with the records now on the Node and
\* issues one read per record (lines 311-320)
ReadRecordsCall ==
  /\ pc = "idle"
  /\ readRes' = [i \in 1..Len(nodeRecords) |-> Pending]
  /\ readOrder' = <<>>
  /\ pc' = "readRecords"
  /\ UNCHANGED <<manifests, nodeProtocols, remoteProtocols, nodeRecords, remoteRecords,
                 run, found, missing, tasks, calls, results, protoAtStart, isSetup,
                 caught, thrown, pipeVars, ctorVars>>

\* Promise.all of readRecords resolves and readRecords returns (lines 312-324)
ReadRecordsJoin ==
  /\ pc = "readRecords"
  /\ \A i \in 1..Len(readRes) : readRes[i] # Pending
  /\ pc' = "readDone"
  /\ readOrder' = <<>>
  /\ UNCHANGED <<manifests, nodeProtocols, remoteProtocols, nodeRecords, remoteRecords,
                 run, found, readRes, missing, tasks, calls, results, protoAtStart,
                 isSetup, caught, thrown, pipeVars, ctorVars>>

RoundTripNext ==
  \/ CreateManifestCall
  \/ CreateReturn
  \/ SendReturn
  \/ ReadRecordsCall
  \/ ReadReturn
  \/ ReadRecordsJoin

\* ---------------------------------------------------------- specifications
\* one setup() invocation against a Node in any initial state
Spec == SetupInit /\ [][SetupNext]_vars

\* setup() invoked up to MaxRuns times against one Node
RerunSpec == SetupInit /\ [][RerunNext]_vars

\* one processRecord() invocation
PipeSpec == PipeInit /\ [][PipeNext]_vars

\* one call of the built-in verifyCredentials
VerifySpec == VerifyInit /\ [][VerifyNext]_vars

\* one new DcxIssuer(params)
CtorSpec == CtorInit /\ [][CtorNext]_vars

\* processRecord() called up to MaxInvocations times on one record, each call
\* made while the one before it is still running
OverlapSpec == OverlapInit /\ [][OverlapNext]_vars

\* createManifestRecord() on the configured manifests and one readRecords()
RoundTripSpec == RoundTripInit /\ [][RoundTripNext]_vars

\* ------------------------------------------------------------------ claims
Count(recs, id) == Cardinality({i \in 1..Len(recs) : recs[i].id = id})

DistinctIds(s) == \A i \in 1..Len(s) : \A j \in 1..Len(s) : i # j => s[i].id # s[j].id

InitialRecords == SelectSeq(nodeRecords, LAMBDA r : r.run = 0)

\* the configured manifests no existing manifest shares its id with, in order
ComputeMissing(M, E) == SelectSeq(M, LAMBDA m : \A i \in 1..Len(E) : E[i].id # m.id)

IsPrefix(s, t) == Len(s) <= Len(t) /\ \A i \in 1..Len(s) : s[i] = t[i]

StageOrder == <<"select", "verify", "request", "issue", "create", "send">>

\* C1: when setup() has run twice and both runs completed, the second run has
\* created no manifest record and has not configured a protocol.
C1_SecondRunCreatesNothing ==
  (run = 2 /\ pc = "complete" /\ results = <<"complete", "complete">>)
    => /\ \A i \in 1..Len(nodeRecords) : nodeRecords[i].run # 2
       /\ calls.configureProtocols = 0

\* C2: filterRecords returns exactly the configured manifests whose id no
\* existing manifest has, in the configured order, repeated ids kept.
C2_FilterReturnsMissing ==
  (pc \in {"creating", "complete"} /\ Len(readRes) > 0)
    => Ids(missing) = Ids(ComputeMissing(manifests, readRes))

\* C3: a run that completes from a Node with at most one record per id, with
\* distinct configured ids, leaves exactly one record per configured id.
C3_OneRecordPerManifest ==
  (run = 1 /\ pc = "complete" /\ DistinctIds(manifests) /\ DistinctIds(InitialRecords))
    => \A i \in 1..Len(manifests) : Count(nodeRecords, manifests[i].id) = 1

\* C4: every run queries protocols once; it configures once if the query
\* returned no definition and never otherwise; the manifest query follows
\* without a second protocol query; a completed run that started with at
\* most one definition leaves exactly one.
C4_ProtocolReconciledOnce ==
  /\ run >= 1 => calls.queryProtocols = 1
  /\ calls.configureProtocols =
       (IF found.returned /\ Len(found.protocols) = 0 THEN 1 ELSE 0)
  /\ pc \in {"queryRecords", "readRecords", "creating", "complete"}
       => found.returned /\ calls.queryRecords = 1
  /\ pc \in {"queryProtocols", "configure", "protocolSend"} => calls.queryRecords = 0
  /\ (pc = "complete" /\ protoAtStart <= 1) => Len(nodeProtocols) = 1

\* a completed run whose protocol query returned nothing and which configured once
C4_Witness ==
  /\ pc = "complete"
  /\ found.returned /\ Len(found.protocols) = 0
  /\ calls.configureProtocols = 1
  /\ Len(nodeProtocols) = 1

\* C5: after an aborted run, the next run that completes leaves exactly one
\* record per configured id, and creates no id the aborted run created.
C5_ConvergesAfterAbort ==
  (run = 2 /\ pc = "complete" /\ results = <<"failed", "complete">>
     /\ DistinctIds(manifests) /\ DistinctIds(InitialRecords))
    => /\ \A i \in 1..Len(manifests) : Count(nodeRecords, manifests[i].id) = 1
       /\ \A i \in 1..Len(nodeRecords) : \A j \in 1..Len(nodeRecords) :
            (nodeRecords[i].run = 1 /\ nodeRecords[j].run = 2)
              => nodeRecords[i].id # nodeRecords[j].id

\* C6: the stages run in the order select, verify, request, issue, create,
\* send, each at most once, and none after a stage has failed, whatever the
\* stages are bound to.
C6_StagesInOrder ==
  /\ IsPrefix(stageLog, StageOrder)
  /\ failedAt \notin {"none", "json"} => stageLog[Len(stageLog)] = failedAt
  /\ failedAt = "json" => stageLog = <<>>
  /\ ppc = "done" => (stageLog = StageOrder /\ failedAt = "none")

\* a run that went through all six stages with an overridden verify stage and
\* the built-in issue stage
C6_Witness ==
  /\ ppc = "done"
  /\ stageLog = StageOrder
  /\ bound["verifyCredentials"] = "override"
  /\ bound["issueCredential"] = "builtin"

\* C7 (as stated): a failed run leaves no response record on the Node nor on
\* the author's replica, and no stage is run twice.
C7_FailedRunLeavesNoRecord ==
  ppc = "error"
    => /\ nodeResponses = <<>>
       /\ authorReplica = <<>>
       /\ \A i \in 1..Len(stageLog) : \A j \in 1..Len(stageLog) :
            i # j => stageLog[i] # stageLog[j]

\* C7 (amended): a failed run ends with an error and leaves no response record
\* on the author's replica; it leaves none on the Node unless the stage that
\* failed is the send, in which case the one record the create stage stored
\* stays; no stage is run twice.
C7_FailedRunUnacknowledged ==
  /\ (failedAt # "none") <=> (ppc = "error")
  /\ ppc = "error"
       => /\ authorReplica = <<>>
          /\ failedAt # "send" => nodeResponses = <<>>
          /\ failedAt = "send" => Len(nodeResponses) = 1
  /\ \A i \in 1..Len(stageLog) : \A j \in 1..Len(stageLog) :
       i # j => stageLog[i] # stageLog[j]

\* a run that failed in the send stage, its response record stored on the Node
C7_Witness ==
  /\ ppc = "error"
  /\ failedAt = "send"
  /\ Len(nodeResponses) = 1
  /\ authorReplica = <<>>

\* C8: when the provider's HTTP call fails in transport or answers with a
\* non-2xx status, the built-in requestCredential throws and the run ends in
\* the request stage with no credential issued and no response record.
C8_HttpFailureAborts ==
  (response # NoResponse /\ (~response.transport \/ response.status \notin 200..299))
    => /\ ppc = "error"
       /\ failedAt = "request"
       /\ vc = NoVc
       /\ nodeResponses = <<>>

\* C9: when the presentation definition is satisfied, verifyCredentials
\* returns, in input order, exactly the tokens whose subject is subjectDid,
\* whose issuer is an allowed or a trusted one and whose verification result
\* is non-empty, and raises no error.
C9_VerifyKeepsExactly ==
  (pdOk /\ stageLog = <<"verify">>)
    => /\ failedAt = "none"
       /\ ppc = "request"
       /\ LET kept == {i \in 1..Len(selected) :
                         /\ selected[i].subject = AuthorDid
                         /\ selected[i].issuer \in OptionIssuers \cup StaticIssuers
                         /\ selected[i].verify = "ok"}
              tokens == Pick(selected, kept)
          IN verified = [k \in 1..Len(tokens) |->
                           [jti |-> tokens[k].jti, subject |-> tokens[k].subject,
                            vcDataModel |-> [issuer |-> tokens[k].issuer]]]

\* a call that kept a token of a static trusted issuer and dropped another token
C9_Witness ==
  /\ pdOk /\ stageLog = <<"verify">>
  /\ Len(verified) >= 1 /\ Len(verified) < Len(selected)
  /\ \E k \in 1..Len(verified) : verified[k].vcDataModel.issuer \in StaticIssuers

\* C10: the constructor raises no error and binds each operation to the first
\* supplied override with its id, or to the built-in when there is none.
C10_HandlersResolved ==
  /\ ctorPc # "threw"
  /\ ctorPc = "done"
       => \A st \in Stages :
            binding[st] = IF \E i \in 1..Len(options.handlers) : options.handlers[i].id = st
                          THEN "override" ELSE "builtin"

\* C11: at most one processRecord invocation is in flight for one record, and
\* invocations that overlap leave at most one response record on the Node
\* and deliver at most one to the author.
C11_SinglePipelineInFlight ==
  /\ Len(nodeResponses) <= 1
  /\ Len(authorReplica) <= 1
  /\ Cardinality({k \in 1..MaxInvocations : inflight[k] \in InFlight}) <= 1

\* C12: every response record processRecord creates has the store flag and the
\* published flag set, the issuance result as payload, the response schema
\* and the path 'application/response'; what reaches a replica is that record,
\* addressed to the author of the submission and to nobody else.
C12_ResponseStoredPublished ==
  /\ \A i \in 1..Len(nodeResponses) :
       /\ nodeResponses[i].store
       /\ nodeResponses[i].published
       /\ nodeResponses[i].data = vc
       /\ nodeResponses[i].schema = "responseSchema"
       /\ nodeResponses[i].protocolPath = "application/response"
  /\ \A i \in 1..Len(authorReplica) :
       /\ authorReplica[i].to = AuthorDid
       /\ Len(nodeResponses) = 1
       /\ authorReplica[i].payload = nodeResponses[1].data
  /\ ppc = "done" => Len(authorReplica) = 1

\* C13: a manifest record that createManifestRecord created and readRecords
\* read back is a document with the id of the manifest the call was given and
\* with the agent's DID as issuer.id, whatever issuer the manifest had.
C13_ManifestRoundTrip ==
  \A i \in 1..Len(readRes) :
    (readRes[i] # Pending /\ nodeRecords[i].task > 0)
      => /\ readRes[i].id = tasks[nodeRecords[i].task].arg.id
         /\ readRes[i].issuer = AgentDid

\* a manifest configured with another issuer, created and read back
C13_Witness ==
  \E i \in 1..Len(readRes) :
    /\ readRes[i] # Pending
    /\ nodeRecords[i].task > 0
    /\ tasks[nodeRecords[i].task].arg.issuer = OtherDid
    /\ readRes[i].issuer = AgentDid

\* C14: the credential the built-in issueCredential returns has the name of
\* the first output descriptor as type and a descriptor map of exactly one
\* entry, with the first descriptor's id and the path
\* '$.verifiableCredential[0]'; nothing of it depends on another descriptor.
C14_IssueBindsFirstDescriptor ==
  (bound["issueCredential"] = "builtin" /\ vc # NoVc)
    => /\ vc.type = outputs[1].name
       /\ Len(vc.descriptor_map) = 1
       /\ vc.descriptor_map[1].id = outputs[1].id
       /\ vc.descriptor_map[1].path = "$.verifiableCredential[0]"
       /\ vc = [subject |-> AuthorDid, issuer |-> AgentDid, type |-> outputs[1].name,
                data |-> data,
                descriptor_map |-> <<[id |-> outputs[1].id, format |-> "jwt_vc",
                                      path |-> "$.verifiableCredential[0]"]>>]

\* a credential issued by the built-in for a manifest with several output descriptors
C14_Witness ==
  /\ bound["issueCredential"] = "builtin"
  /\ vc # NoVc
  /\ Len(outputs) >= 2
  /\ ppc \in {"create", "send", "done"}

\* C15: isSetup is false before setup and while it has not completed or has
\* failed, and true once setup() has completed.
C15_ReadyFollowsSetup ==
  /\ pc # "complete" => ~isSetup
  /\ pc = "complete" => isSetup

\* C16: a manifest whose creation yields no record is dropped silently: its
\* createManifestRecord raises no error and the run does not fail because of it.
C16_NoRecordIsDropped ==
  /\ \A k \in 1..Len(tasks) :
       tasks[k].create = "noRecord" => (tasks[k].st # "failed" /\ tasks[k].error = NoError)
  /\ thrown # DcxDwnError

\* the calls of a run that come after the call `call`
LaterCalls(call) ==
  CASE call \in {"protocols.query"} -> calls.configureProtocols + calls.queryRecords
    [] call \in {"protocols.configure", "protocol.send"} -> calls.queryRecords
    [] OTHER -> 0

C18_NoEffectAfterReturn ==
  [][(pc \in {"complete", "failed"})
       => (nodeRecords' = nodeRecords /\ remoteRecords' = remoteRecords /\ tasks' = tasks)]_vars

\* C19: when configureProtocols fails, the error is a Node status error built
\* from the failure status of the configure or of the publish, or else, when
\* configure returned no handle with a success status, an error of another
\* kind; the publish is awaited only after a configure that returned a handle.
C19_ConfigureErrors ==
  /\ (pc = "failed" /\ caught.status.call \in {"protocols.configure", "protocol.send"})
       => (thrown.name = "DwnError" /\ thrown.status.failure)
  /\ thrown.name = "DwnError" => thrown.status.failure
  /\ (pc = "protocolSend" \/ caught.status.call = "protocol.send" \/ remoteProtocols > 0)
       => Len(nodeProtocols) = protoAtStart + 1

Completed == {readOrder[n] : n \in 1..Len(readOrder)}

\* C21: whatever the order in which the reads of readRecords complete, the
\* result has one element per input record and its i-th element is the
\* payload of the i-th input record.
C21_ReadKeepsIndex ==
  /\ Len(readRes) <= Len(nodeRecords)
  /\ pc \in {"readRecords", "creating", "complete"} => Len(readRes) = Len(InitialRecords)
  /\ \A i \in 1..Len(readRes) :
       /\ pc = "readRecords" => (readRes[i] # Pending <=> i \in Completed)
       /\ readRes[i] # Pending => readRes[i] = Payload(nodeRecords[i])
  /\ pc \in {"creating", "complete"}
       => \A i \in 1..Len(readRes) : readRes[i] = Payload(nodeRecords[i])

\* every read of a readRecords on two or more records has completed, the
\* first of them after another, and the array holds different payloads
C21_Witness ==
  /\ pc = "readRecords"
  /\ Len(readRes) >= 2
  /\ Len(readOrder) = Len(readRes)
  /\ readOrder[1] > readOrder[2]
  /\ readRes[1] # readRes[2]
  /\ \A i \in 1..Len(readRes) : readRes[i] = Payload(nodeRecords[i])

\* C22: with the built-in stages the author of the record is the subject all
\* along: every credential verify keeps has the author as subject, the issued
\* credential has the author as subject and the agent as issuer, and a
\* response record is sent to the author.
C22_AuthorIsTheSubject ==
  /\ (bound["verifyCredentials"] = "builtin")
       => \A k \in 1..Len(verified) : verified[k].subject = AuthorDid
  /\ (bound["issueCredential"] = "builtin" /\ vc # NoVc)
       => (vc.subject = AuthorDid /\ vc.issuer = AgentDid)
  /\ \A i \in 1..Len(authorReplica) : authorReplica[i].to = AuthorDid

\* a run of built-in verify and issue stages that kept a credential and sent
\* its response
C22_Witness ==
  /\ bound["verifyCredentials"] = "builtin"
  /\ bound["issueCredential"] = "builtin"
  /\ ppc = "done"
  /\ Len(verified) >= 1
  /\ Len(authorReplica) = 1

\* C23: when the built-in verifyCredentials returns an empty list the run goes
\* on: it does not fail in the verify stage, the provider is called next, and
\* a run whose later stages all succeed has issued a credential and sent the
\* response record to the author.
C23_EmptyVerificationGoesOn ==
  (bound["verifyCredentials"] = "builtin" /\ pdOk /\ verified = <<>>)
    => /\ failedAt \notin {"json", "select", "verify"}
       /\ ppc \in {"request", "issue", "create", "send", "done", "error"}
       /\ ppc # "request" => (Len(stageLog) >= 3 /\ stageLog[3] = "request")
       /\ ppc = "done"
            => /\ vc # NoVc
               /\ authorReplica = <<[to |-> AuthorDid, payload |-> vc]>>

\* a run in which verify dropped the one selected token and which went on to
\* send a response built by the built-in request and issue stages
C23_Witness ==
  /\ bound["verifyCredentials"] = "builtin"
  /\ bound["requestCredential"] = "builtin"
  /\ bound["issueCredential"] = "builtin"
  /\ pdOk
  /\ Len(selected) >= 1
  /\ verified = <<>>
  /\ ppc = "done"
  /\ Len(authorReplica) = 1

====
